---------------------------- MODULE Spec2Model ----------------------------
(***************************************************************************)
(* StableSwap pool math of curvesim/pool/pool.py (class Pool and the       *)
(* module-level error functions arberror / arberrors).                     *)
(*                                                                         *)
(* Number representation.  The source works on unbounded Python integers   *)
(* with two fixed-point denominators, 10**18 (precisions, virtual price)   *)
(* and 10**10 (fees).  Balances here are small naturals; a precision or a  *)
(* fee is kept as the exact ratio  value / denominator :                   *)
(*    p   = 10**18 * num / den      fee = 10**10 * num / den               *)
(* and every source expression  a * p // 10**18,  a * 10**18 // p,         *)
(* a * fee // 10**10  is computed on the ratio with the same floor, so     *)
(* the integers produced are the integers the source produces for these    *)
(* inputs.  Lists keep the source's 0-based indices: a list of length k    *)
(* is a function on 0..k-1.                                                *)
(*                                                                         *)
(* Outcome of a call: it returns (st = "ok"), raises (st = "raise",        *)
(* ZeroDivisionError / AssertionError) or never returns (st = "hang",      *)
(* a fixed-point loop that cycles).                                        *)
(***************************************************************************)
EXTENDS Integers, Sequences, FiniteSets, TLC

VARIABLES
    pool,       \* the Pool object the caller holds (plain or meta)
    basepool,   \* pool.basepool of a meta pool
    plist,      \* the precision lists, by object: pool.p and basepool.p name one
    last,       \* the last call: arguments, outcome, state before it
    halted,     \* a call entered a loop that never exits
    steps,      \* calls made so far
    built       \* the objects as the constructor left them

vars == <<pool, basepool, plist, last, halted, steps, built>>

-----------------------------------------------------------------------------
(* Bounds of the model *)

\* largest balance a constructed pool starts with
MaxBal == 6
\* largest input amount (dx, amounts[k], token_amount) of one call
MaxAmt == 4
\* exchanges in a row explored after construction
MaxSwaps == 2
\* calls explored after construction when every method may be called
MaxCalls == 1

-----------------------------------------------------------------------------
(* Integer helpers *)

Abs(a) == IF a < 0 THEN -a ELSE a

\* Python's a // b for b # 0 (floor division, any signs)
FloorDiv(a, b) == IF b > 0 THEN a \div b ELSE (-a) \div (-b)

Idx(n) == 0 .. (n - 1)

RECURSIVE SumTo(_, _)
SumTo(f, k) == IF k < 0 THEN 0 ELSE f[k] + SumTo(f, k - 1)

\* sum(list)
Sum(f) == SumTo(f, Cardinality(DOMAIN f) - 1)

Len0(f) == Cardinality(DOMAIN f)

\* list[k] is defined: -len <= k < len (IndexError otherwise)
InRange(f, k) == -Len0(f) <= k /\ k < Len0(f)

\* the position list[k] names, with Python's negative indices
PyIdx(f, k) == IF k < 0 THEN k + Len0(f) ELSE k

\* list[k] with Python's negative indices
At(f, k) == f[PyIdx(f, k)]

Ok(v) == [st |-> "ok", v |-> v]
Raise == [st |-> "raise", v |-> 0]
Hang == [st |-> "hang", v |-> 0]

\* the statements F that follow the calls with outcomes S: run after a call
\* that returned, skipped after one that did not
Then(S, F(_)) == UNION {IF r.st = "ok" THEN F(r) ELSE {r} : r \in S}

\* the statements F that follow an assignment of v
With(v, F(_)) == F(v)

\* a ratio num/den standing for the fixed-point value 10**18*num/den
Rate(num, den) == [num |-> num, den |-> den]
One == Rate(1, 1)

RECURSIVE TwoFive(_)
\* k has no prime factor other than 2 and 5
TwoFive(k) ==
    IF k <= 1 THEN TRUE
    ELSE IF k % 2 = 0 THEN TwoFive(k \div 2)
    ELSE IF k % 5 = 0 THEN TwoFive(k \div 5)
    ELSE FALSE

RECURSIVE Gcd(_, _)
Gcd(a, b) == IF b = 0 THEN a ELSE Gcd(b, a % b)

\* 10**18 * num / den is an integer (den < 2**18)
Exact18(r) == r.num = 0 \/ TwoFive(r.den \div Gcd(r.den, r.num))

\* floor(a/b + e) for b # 0 and an e of sign sgn too small to carry the sum
\* across an integer unless a/b is one
FloorEps(a, b, sgn) ==
    LET an == IF b > 0 THEN a ELSE -a
        bn == IF b > 0 THEN b ELSE -b
    IN  IF sgn < 0 /\ an % bn = 0 THEN an \div bn - 1 ELSE an \div bn

\* a * p // 10**18 where p = 10**18 * num // den.  When that p was truncated
\* (10**18*num/den is no integer) the product lies just below a*num/den.
ToVirtual(a, r) ==
    IF r.den > 0
    THEN FloorEps(a * r.num, r.den, IF a > 0 /\ r.num > 0 /\ ~Exact18(r) THEN -1 ELSE 0)
    ELSE FloorDiv(a * r.num, r.den)

\* a * 10**18 // p  (p # 0).  A truncated p is just below 10**18*num/den,
\* so the quotient lies just beyond a*den/num, away from zero.
FromVirtual(a, r) ==
    FloorEps(a * r.den, r.num, IF a < 0 /\ r.num > 0 /\ ~Exact18(r) THEN -1 ELSE 0)

\* a * fee // 10**10
FeeOf(a, f) == FloorDiv(a * f.num, f.den)

-----------------------------------------------------------------------------
(* Pool.xp and Pool.D *)

xp(pl, pp) == [k \in Idx(pl.n) |-> ToVirtual(pl.x[k], pp[k])]

RECURSIVE D_P_fold(_, _, _, _, _)
\* for x in xp: D_P = D_P * D // (self.n * x)
D_P_fold(acc, Dv, n, xs, k) ==
    IF k = Len0(xs) THEN acc
    ELSE D_P_fold(FloorDiv(acc * Dv, n * xs[k]), Dv, n, xs, k + 1)

RECURSIVE D_loop(_, _, _, _, _, _, _)
\* while abs(D - Dprev) > 1: ...   seen = the (Dprev, D) pairs already met
D_loop(Ann, n, S, xs, Dv, Dprev, seen) ==
    IF Abs(Dv - Dprev) <= 1 THEN Ok(Dv)
    ELSE IF <<Dprev, Dv>> \in seen THEN Hang
    ELSE IF \E k \in DOMAIN xs : n * xs[k] = 0 THEN Raise
    ELSE LET D_P == D_P_fold(Dv, Dv, n, xs, 0)
             den == (Ann - 1) * Dv + (n + 1) * D_P
         IN  IF den = 0 THEN Raise
             ELSE D_loop(Ann, n, S, xs, FloorDiv((Ann * S + D_P * n) * Dv, den),
                         Dv, seen \cup {<<Dprev, Dv>>})

\* D with Dprev starting at D instead of 0: the loop is never entered
D_skips_loop(pl, xs) == D_loop(pl.A * pl.n, pl.n, Sum(xs), xs, Sum(xs), Sum(xs), {})

\* D(xp)
D(pl, xs) == D_loop(pl.A * pl.n, pl.n, Sum(xs), xs, Sum(xs), 0, {})


-----------------------------------------------------------------------------
(* Pool.y and Pool.y_D *)

RECURSIVE c_fold(_, _, _, _, _, _)
\* for y in xx: c = c * D // (y * self.n)      (xx = the entries k # skip)
c_fold(acc, Dv, n, xx, skip, k) ==
    IF k = n THEN acc
    ELSE IF k = skip THEN c_fold(acc, Dv, n, xx, skip, k + 1)
    ELSE c_fold(FloorDiv(acc * Dv, xx[k] * n), Dv, n, xx, skip, k + 1)

RECURSIVE y_loop(_, _, _, _, _)
\* while abs(y - y_prev) > 1: y_prev = y; y = (y**2 + c) // (2 * y + b)
y_loop(c, b, yv, y_prev, seen) ==
    IF Abs(yv - y_prev) <= 1 THEN Ok(yv)
    ELSE IF <<y_prev, yv>> \in seen THEN Hang
    ELSE IF 2 * yv + b = 0 THEN Raise
    ELSE y_loop(c, b, FloorDiv(yv * yv + c, 2 * yv + b), yv,
                seen \cup {<<y_prev, yv>>})

\* the part of y and y_D after D is known: xx already has entry `skip` left out
y_solve(pl, Dv, xx, skip) ==
    LET others == Idx(pl.n) \ {skip}
        Ann == pl.A * pl.n
    IN  IF \E k \in others : xx[k] * pl.n = 0 THEN Raise
        ELSE IF pl.n * Ann = 0 THEN Raise
        ELSE LET c0 == c_fold(Dv, Dv, pl.n, xx, skip, 0)
                 c == FloorDiv(c0 * Dv, pl.n * Ann)
                 S_ == Sum([k \in Idx(pl.n) |-> IF k = skip THEN 0 ELSE xx[k]])
                 b == S_ + FloorDiv(Dv, Ann) - Dv
             IN  y_loop(c, b, Dv, 0, {})

\* y(i, j, x, xp): x[j] if one makes x[i] = x
y(pl, i, j, x, xs) ==
    With(D(pl, xs), LAMBDA Dr :
    IF Dr.st # "ok" THEN Dr
    ELSE IF ~InRange(xs, i) THEN Raise
    ELSE y_solve(pl, Dr.v, [xs EXCEPT ![PyIdx(xs, i)] = x], j))

\* y_D(i, _D)
y_D(pl, pp, i, D_) == y_solve(pl, D_, xp(pl, pp), i)

-----------------------------------------------------------------------------
(* Pool.get_virtual_price, Pool.dynamic_fee *)

\* no dynamic fee (feemul is None)
None == Rate(0, 0)

\* D() * 10**18 // tokens, as the ratio D / tokens
get_virtual_price(pl, pp) ==
    With(D(pl, xp(pl, pp)), LAMBDA Dr :
    IF Dr.st # "ok" THEN Dr
    ELSE IF pl.tokens = 0 THEN Raise
    ELSE Ok(Rate(Dr.v, pl.tokens)))

\* (feemul * fee) // ((feemul - 10**10) * 4 * xpi * xpj // xps2 + 10**10)
\* with feemul = 10**10 * m.num / m.den; computed as the ratio
\* fee * m * xps2 / ((m - 1) * 4 * xpi * xpj + xps2), which is the source's
\* integer for m = 1 (feemul = 10**10), the multiplier the model's pools use.
dynamic_fee(pl, xpi, xpj) ==
    LET xps2 == (xpi + xpj) * (xpi + xpj)
        m == pl.feemul
    IN  IF xps2 = 0 THEN Raise
        ELSE Ok(Rate(pl.fee.num * m.num * xps2,
                     pl.fee.den * ((m.num - m.den) * 4 * xpi * xpj + m.den * xps2)))

-----------------------------------------------------------------------------
(* Results of the methods: outcome, state left behind, value returned *)

Res(st, pl, ret) == [st |-> st, pool |-> pl, ret |-> ret]

-----------------------------------------------------------------------------
(* Pool.dy and Pool.exchange, plain pool branch *)

\* dy with the pool's fee taken off the quote
dy_plain_net(pl, pp, i, j, dx) ==
    With(xp(pl, pp), LAMBDA xs :
    With(y(pl, i, j, xs[i] + dx, xs), LAMBDA yr :
    IF yr.st # "ok" THEN yr
    ELSE Ok(xs[j] - yr.v - FeeOf(xs[j] - yr.v, pl.fee))))

\* dy(i, j, dx), "if not meta-pool" branch
dy_plain(pl, pp, i, j, dx) ==
    With(xp(pl, pp), LAMBDA xs :
    IF ~InRange(xs, j) \/ ~InRange(xs, i) THEN Raise
    ELSE With(y(pl, i, j, At(xs, i) + dx, xs), LAMBDA yr :
         IF yr.st # "ok" THEN yr ELSE Ok(At(xs, j) - yr.v)))

\* exchange(i, j, dx), "if not meta-pool, normal exchange" branch
exchange_plain(pl, pp, i, j, dx) ==
    With(xp(pl, pp), LAMBDA xs :
    IF ~InRange(xs, i) THEN Res("raise", pl, <<>>)
    ELSE
    With(At(xs, i) + dx, LAMBDA x :
    With(y(pl, i, j, x, xs), LAMBDA yr :
    IF yr.st # "ok" THEN Res(yr.st, pl, <<>>)
    ELSE IF ~InRange(xs, j) THEN Res("raise", pl, <<>>)
    ELSE
    With(At(xs, j) - yr.v, LAMBDA dyv :
    With(IF pl.feemul = None THEN Ok(pl.fee)
         ELSE dynamic_fee(pl, FloorDiv(At(xs, i) + x, 2),
                          FloorDiv(At(xs, j) + yr.v, 2)), LAMBDA fr :
    IF fr.st # "ok" THEN Res(fr.st, pl, <<>>)
    ELSE
    With(FeeOf(dyv, fr.v), LAMBDA feev :
    IF ~(dyv > 0) THEN Res("raise", pl, <<>>)
    ELSE IF At(pp, i).num = 0 THEN Res("raise", pl, <<>>)
    ELSE
    With([pl EXCEPT !.x[PyIdx(xs, i)] = FromVirtual(x, At(pp, i))], LAMBDA pl1 :
    IF At(pp, j).num = 0 THEN Res("raise", pl1, <<>>)
    ELSE Res("ok",
             [pl1 EXCEPT !.x[PyIdx(xs, j)] = FromVirtual(yr.v + feev, At(pp, j))],
             <<dyv - feev, feev>>))))))))

-----------------------------------------------------------------------------
(* Liquidity: add_liquidity, calc_token_amount, calc_withdraw_one_coin,     *)
(* remove_liquidity_one_coin                                               *)

\* _fee = self.fee * self.n // (4 * (self.n - 1)), as a ratio of 10**10
\* (a whole number of 10**-10 units for n <= 3 and the fees of the model)
imbalance_fee(pl) == Rate(pl.fee.num * pl.n, pl.fee.den * 4 * (pl.n - 1))

add_liquidity(pl, pp, amounts) ==
    With(pl.x, LAMBDA old_balances :
    With(D(pl, xp(pl, pp)), LAMBDA D0r :
    IF pl.n = 1 THEN Res("raise", pl, <<>>)
    ELSE IF D0r.st # "ok" THEN Res(D0r.st, pl, <<>>)
    ELSE IF Len0(amounts) < pl.n THEN Res("raise", pl, <<>>)
    ELSE
    With(D0r.v, LAMBDA D0 :
    With([k \in Idx(pl.n) |-> pl.x[k] + amounts[k]], LAMBDA new_balances :
    With([pl EXCEPT !.x = new_balances], LAMBDA plnew :
    \* D1 is computed while self.x is new_balances
    With(D(plnew, xp(plnew, pp)), LAMBDA D1r :
    IF D1r.st # "ok" THEN Res(D1r.st, plnew, <<>>)
    ELSE IF D0 = 0 THEN Res("raise", pl, <<>>)
    ELSE
    With([k \in Idx(pl.n) |->
            FeeOf(Abs(FloorDiv(D1r.v * old_balances[k], D0) - new_balances[k]),
                  imbalance_fee(pl))], LAMBDA fees :
    With([k \in Idx(pl.n) |-> new_balances[k] - fees[k]], LAMBDA mint_balances :
    With([pl EXCEPT !.x = mint_balances], LAMBDA plmint :
    \* D2 is computed while self.x is mint_balances
    With(D(plmint, xp(plmint, pp)), LAMBDA D2r :
    IF D2r.st # "ok" THEN Res(D2r.st, plmint, <<>>)
    ELSE
    With(FloorDiv(pl.tokens * (D2r.v - D0), D0), LAMBDA mint_amount :
    Res("ok", [plnew EXCEPT !.tokens = pl.tokens + mint_amount],
        <<mint_amount>>))))))))))))

\* the mint amount from the growth of D alone, no imbalance fee
calc_token_amount_no_fee(pl, pp, amounts) ==
    With(D(pl, xp(pl, pp)), LAMBDA D0r :
    With([pl EXCEPT !.x = [k \in Idx(pl.n) |-> pl.x[k] + amounts[k]]], LAMBDA plnew :
    With(D(plnew, xp(plnew, pp)), LAMBDA D1r :
    IF D0r.st # "ok" THEN Res(D0r.st, pl, <<>>)
    ELSE IF D1r.st # "ok" THEN Res(D1r.st, plnew, <<>>)
    ELSE IF D0r.v = 0 THEN Res("raise", pl, <<>>)
    ELSE Res("ok", pl, <<FloorDiv(pl.tokens * (D1r.v - D0r.v), D0r.v)>>))))

calc_token_amount(pl, pp, amounts) ==
    With(pl.x, LAMBDA old_balances :
    With(D(pl, xp(pl, pp)), LAMBDA D0r :
    IF pl.n = 1 THEN Res("raise", pl, <<>>)
    ELSE IF D0r.st # "ok" THEN Res(D0r.st, pl, <<>>)
    ELSE IF Len0(amounts) < pl.n THEN Res("raise", pl, <<>>)
    ELSE
    With(D0r.v, LAMBDA D0 :
    With([k \in Idx(pl.n) |-> pl.x[k] + amounts[k]], LAMBDA new_balances :
    With([pl EXCEPT !.x = new_balances], LAMBDA plnew :
    With(D(plnew, xp(plnew, pp)), LAMBDA D1r :
    IF D1r.st # "ok" THEN Res(D1r.st, plnew, <<>>)
    ELSE IF D0 = 0 THEN Res("raise", pl, <<>>)
    ELSE
    With([k \in Idx(pl.n) |->
            FeeOf(Abs(FloorDiv(D1r.v * old_balances[k], D0) - new_balances[k]),
                  imbalance_fee(pl))], LAMBDA fees :
    With([k \in Idx(pl.n) |-> new_balances[k] - fees[k]], LAMBDA mint_balances :
    With([pl EXCEPT !.x = mint_balances], LAMBDA plmint :
    With(D(plmint, xp(plmint, pp)), LAMBDA D2r :
    IF D2r.st # "ok" THEN Res(D2r.st, plmint, <<>>)
    ELSE Res("ok", [pl EXCEPT !.x = old_balances],
             <<FloorDiv(pl.tokens * (D2r.v - D0), D0)>>)))))))))))

\* remove_liquidity_imbalance(amounts): self.x is bound to new_balances while
\* D1 and D2 are computed and to old_balances again before the return
remove_liquidity_imbalance(pl, pp, amounts) ==
    With(pl.x, LAMBDA old_balances :
    With(D(pl, xp(pl, pp)), LAMBDA D0r :
    IF pl.n = 1 THEN Res("raise", pl, <<>>)
    ELSE IF D0r.st # "ok" THEN Res(D0r.st, pl, <<>>)
    ELSE IF Len0(amounts) < pl.n THEN Res("raise", pl, <<>>)
    ELSE
    With(D0r.v, LAMBDA D0 :
    With([k \in Idx(pl.n) |-> pl.x[k] - amounts[k]], LAMBDA new_balances :
    With([pl EXCEPT !.x = new_balances], LAMBDA plnew :
    With(D(plnew, xp(plnew, pp)), LAMBDA D1r :
    IF D1r.st # "ok" THEN Res(D1r.st, plnew, <<>>)
    ELSE IF D0 = 0 THEN Res("raise", pl, <<>>)
    ELSE
    With([k \in Idx(pl.n) |->
            FeeOf(Abs(FloorDiv(D1r.v * old_balances[k], D0) - new_balances[k]),
                  imbalance_fee(pl))], LAMBDA fees :
    With([k \in Idx(pl.n) |-> new_balances[k] - fees[k]], LAMBDA fee_balances :
    With([pl EXCEPT !.x = fee_balances], LAMBDA plfee :
    With(D(plfee, xp(plfee, pp)), LAMBDA D2r :
    IF D2r.st # "ok" THEN Res(D2r.st, plfee, <<>>)
    ELSE Res("ok", [pl EXCEPT !.x = old_balances],
             <<FloorDiv((D0 - D2r.v) * pl.tokens, D0)>>)))))))))))

\* dy * fee // 10**10 for fee = self.fee - self.fee * xp[i] // sum(xp) + 5 * 10**5.
\* With self.fee = 10**10*num/den and S = sum(xp) > 0 the quotient is
\*    dy*num*(S - xp[i])/(den*S)  +  dy*(r/S + 5*10**5)/10**10,   0 <= r < S,
\* and the second term has the sign of dy and is below 1/(den*S) in size
\* as long as |dy|*den*S < 19999, which the balances of the model satisfy.
withdraw_fee(pl, dyv, xpi, S) ==
    FloorEps(dyv * pl.fee.num * (S - xpi), pl.fee.den * S, IF dyv < 0 THEN -1 ELSE 0)

calc_withdraw_one_coin(pl, pp, token_amount, i, fee) ==
    With(xp(pl, pp), LAMBDA xs :
    With(Sum(xs), LAMBDA S :
    With(pl.fee.num # 0 /\ fee, LAMBDA charged :
    IF charged /\ S = 0 THEN Raise
    ELSE
    With(D(pl, xs), LAMBDA D0r :
    IF D0r.st # "ok" THEN D0r
    ELSE IF pl.tokens = 0 THEN Raise
    ELSE
    With(D0r.v - FloorDiv(token_amount * D0r.v, pl.tokens), LAMBDA D1 :
    With(y_D(pl, pp, i, D1), LAMBDA yr :
    IF yr.st # "ok" THEN yr
    ELSE
    With(xs[i] - yr.v, LAMBDA dyv :
    Ok(dyv - (IF charged THEN withdraw_fee(pl, dyv, xs[i], S) ELSE 0)))))))))

\* remove_liquidity_one_coin that pays the coin out and burns no tokens
remove_liquidity_one_coin_no_burn(pl, pp, token_amount, i) ==
    With(calc_withdraw_one_coin(pl, pp, token_amount, i, TRUE), LAMBDA r :
    IF r.st # "ok" THEN Res(r.st, pl, <<>>)
    ELSE Res("ok", [pl EXCEPT !.x[i] = pl.x[i] - r.v], <<r.v>>))

remove_liquidity_one_coin(pl, pp, token_amount, i) ==
    With(calc_withdraw_one_coin(pl, pp, token_amount, i, TRUE), LAMBDA r :
    IF r.st # "ok" THEN Res(r.st, pl, <<>>)
    ELSE Res("ok",
             [pl EXCEPT !.x[i] = pl.x[i] - r.v, !.tokens = pl.tokens - token_amount],
             <<r.v>>))

-----------------------------------------------------------------------------
(* Objects: a world is the pool, its base pool and the precision lists.     *)
(* pool.p and basepool.p hold the name of a list; two attributes with the   *)
(* same name are one list object.                                           *)

\* names of the list objects that hold precisions: the list given to (or made
\* by) the constructor of the pool, the list of the base pool, and the copy
\* p_before that pricedepth makes
PRefs == {"p_pool", "p_base", "p_before"}

World(pl, bp, lists) == [pool |-> pl, basepool |-> bp, plist |-> lists]

\* outcome of a call on a world: status, world left behind, values returned
MRes(st, w, ret) == [st |-> st, w |-> w, ret |-> ret]

\* a method of the pool, or of the base pool, ran inside the world w
OnPool(w, r) == MRes(r.st, [w EXCEPT !.pool = r.pool], r.ret)
OnBase(w, r) == MRes(r.st, [w EXCEPT !.basepool = r.pool], r.ret)

-----------------------------------------------------------------------------
(* Pool.__init__ *)

\* placeholder for pool.basepool of a plain pool (the attribute is absent)
NoBase == [A |-> 0, n |-> 0, fee |-> Rate(0, 1), p |-> "p_base", x |-> <<>>,
           tokens |-> 0, feemul |-> None, ismeta |-> FALSE, r |-> FALSE,
           max_coin |-> 0, n_total |-> 0]

\* __init__, "else" branch (n is no list): a plain pool built from a list of
\* balances D; tokens = -1 stands for tokens=None
PlainPool(A, xs, n, pref, pp, tokens, fee, feemul) ==
    LET pl0 == [A |-> A, n |-> n, fee |-> fee, p |-> pref, x |-> xs,
                tokens |-> 0, feemul |-> feemul, ismeta |-> FALSE, r |-> FALSE,
                max_coin |-> 0, n_total |-> n]
        Dr == D(pl0, xp(pl0, pp))
    IN  IF tokens = -1
        THEN Res(Dr.st, [pl0 EXCEPT !.tokens = Dr.v], <<>>)
        ELSE Res("ok", [pl0 EXCEPT !.tokens = tokens], <<>>)

\* rates = self.p[:]; rates[self.max_coin] = self.basepool.get_virtual_price()
rates(w) ==
    With(get_virtual_price(w.basepool, w.plist[w.basepool.p]), LAMBDA vp :
    IF vp.st # "ok" THEN vp
    ELSE Ok([w.plist[w.pool.p] EXCEPT ![w.pool.max_coin] = vp.v]))

\* __init__, "if isinstance(n, list)" branch: a meta pool.  A, n, fee are the
\* pairs given for the pool and its base pool, D0 is D[0] (a list of balances,
\* or with whole = TRUE a number to spread over the coins), D1 is D[1] (a list),
\* p is the list given as p or <<>> for p=None, r is a Rate or None.
MetaPool(A, D0, whole, D1, n, p, tokens, fee, feemul, r) ==
    LET b == PlainPool(A[2], D1, n[2], "p_base", [k \in Idx(n[2]) |-> One],
                       tokens, fee[2], None)
    IN  IF b.st # "ok" THEN MRes(b.st, World(NoBase, NoBase, [ref \in PRefs |-> <<>>]), <<>>)
        ELSE
        LET given == p # <<>>
            plain_p == IF given THEN p ELSE [k \in Idx(n[1]) |-> One]
            own_p == IF r # None THEN [plain_p EXCEPT ![0] = r] ELSE plain_p
            lists == [ref \in PRefs |->
                        IF ref = "p_pool" THEN own_p
                        ELSE IF ref = "p_base" /\ ~given THEN [k \in Idx(n[2]) |-> One]
                        ELSE <<>>]
            bp == [b.pool EXCEPT !.p = IF given THEN "p_pool" ELSE "p_base"]
            pl0 == [A |-> A[1], n |-> n[1], fee |-> fee[1], p |-> "p_pool", x |-> <<>>,
                    tokens |-> 0, feemul |-> feemul, ismeta |-> TRUE, r |-> (r # None),
                    max_coin |-> n[1] - 1, n_total |-> n[1] + n[2] - 1]
            w0 == World(pl0, bp, lists)
            rs == IF whole THEN rates(w0) ELSE Ok(own_p)
        IN  IF rs.st # "ok" THEN MRes(rs.st, w0, <<>>)
            ELSE IF whole /\ \E k \in Idx(n[1]) : rs.v[k].num = 0 THEN MRes("raise", w0, <<>>)
            ELSE
            LET xs == IF whole
                      THEN [k \in Idx(n[1]) |-> FromVirtual(FloorDiv(D0, n[1]), rs.v[k])]
                      ELSE D0
                pl1 == [pl0 EXCEPT !.x = xs]
                Dr == D(pl1, xp(pl1, own_p))
            IN  MRes(Dr.st, World([pl1 EXCEPT !.tokens = Dr.v], bp, lists), <<>>)

-----------------------------------------------------------------------------
(* Pool.exchange on a meta pool *)

\* exchange(i, j, dx), "if self.ismeta" branch (exchange_underlying)
exchange_meta(w, i, j, dx) ==
    LET pl == w.pool
        bp == w.basepool
        bpp == w.plist[bp.p]
        base_i == i - pl.max_coin
        base_j == j - pl.max_coin
        meta_i == IF base_i < 0 THEN i ELSE pl.max_coin
        meta_j == IF base_j < 0 THEN j ELSE pl.max_coin
        base_inputs == [k \in Idx(bp.n) |-> IF k = base_i THEN dx ELSE 0]
    IN  With(rates(w), LAMBDA rs :
        IF rs.st # "ok" THEN MRes(rs.st, w, <<>>)
        ELSE IF ~(base_i < 0 \/ base_j < 0)
        THEN \* both are from the base pool
             OnBase(w, exchange_plain(bp, bpp, base_i, base_j, dx))
        ELSE
        With([k \in Idx(pl.n) |-> ToVirtual(pl.x[k], rs.v[k])], LAMBDA xs :
        With(IF base_i < 0 THEN Res("ok", bp, <<dx>>)
             ELSE add_liquidity(bp, bpp, base_inputs), LAMBDA added :
        IF added.st # "ok" THEN OnBase(w, added)
        ELSE
        With(IF base_i < 0 THEN xs[i] + ToVirtual(dx, rs.v[i])
             ELSE ToVirtual(added.ret[1], rs.v[pl.max_coin]) + xs[pl.max_coin], LAMBDA x :
        With([w EXCEPT !.pool.x[meta_i] = pl.x[meta_i] + added.ret[1],
                       !.basepool = added.pool], LAMBDA w1 :
        With(y(pl, meta_i, meta_j, x, xs), LAMBDA yr :
        IF yr.st # "ok" THEN MRes(yr.st, w1, <<>>)
        ELSE IF rs.v[meta_j].num = 0 THEN MRes("raise", w1, <<>>)
        ELSE
        With(xs[meta_j] - yr.v - 1, LAMBDA dy0 :
        With(FeeOf(dy0, pl.fee), LAMBDA dy_fee :
        With(FromVirtual(dy0, rs.v[meta_j]), LAMBDA dy_nofee :
        With(FromVirtual(dy0 - dy_fee, rs.v[meta_j]), LAMBDA dyv :
        With([w1 EXCEPT !.pool.x[meta_j] = w1.pool.x[meta_j] - dyv], LAMBDA w2 :
        IF base_j < 0 THEN MRes("ok", w2, <<dyv, dy_fee>>)
        ELSE
        With(remove_liquidity_one_coin(w2.basepool, bpp, dyv, base_j), LAMBDA out :
        IF out.st # "ok" THEN OnBase(w2, out)
        ELSE
        With([w2 EXCEPT !.basepool = out.pool], LAMBDA w3 :
        With(calc_withdraw_one_coin(out.pool, bpp, dy_nofee, base_j, FALSE),
             LAMBDA nofee :
        IF nofee.st # "ok" THEN MRes(nofee.st, w3, <<>>)
        ELSE MRes("ok", w3, <<out.ret[1], nofee.v - out.ret[1]>>)))))))))))))))

\* exchange(i, j, dx)
exchange(w, i, j, dx) ==
    IF w.pool.ismeta THEN exchange_meta(w, i, j, dx)
    ELSE OnPool(w, exchange_plain(w.pool, w.plist[w.pool.p], i, j, dx))

-----------------------------------------------------------------------------
(* Pool.dy: the quote *)

\* dy(i, j, dx), "if self.ismeta" branch.  A quote that raises inside
\* basepool.calc_token_amount leaves the base pool as that call left it.
dy_meta(w, i, j, dx) ==
    LET pl == w.pool
        bp == w.basepool
        bpp == w.plist[bp.p]
        base_i == i - pl.max_coin
        base_j == j - pl.max_coin
        meta_i == IF base_i < 0 THEN i ELSE pl.max_coin
        meta_j == IF base_j < 0 THEN j ELSE pl.max_coin
        base_inputs == [k \in Idx(bp.n) |-> IF k = base_i THEN dx ELSE 0]
    IN  With(rates(w), LAMBDA rs :
        IF rs.st # "ok" THEN MRes(rs.st, w, <<>>)
        ELSE IF ~(base_i < 0 \/ base_j < 0)
        THEN \* both are from the base pool
             With(dy_plain(bp, bpp, base_i, base_j, dx), LAMBDA q :
             IF q.st # "ok" THEN MRes(q.st, w, <<>>)
             ELSE MRes("ok", w, <<q.v - FeeOf(q.v, pl.fee)>>))
        ELSE
        With([k \in Idx(pl.n) |-> ToVirtual(pl.x[k], rs.v[k])], LAMBDA xs :
        With(IF base_i < 0 THEN Res("ok", bp, <<dx>>)
             ELSE calc_token_amount(bp, bpp, base_inputs), LAMBDA minted :
        IF minted.st # "ok" THEN OnBase(w, minted)
        ELSE
        With(IF base_i < 0 THEN xs[i] + ToVirtual(dx, rs.v[i])
             ELSE ToVirtual(minted.ret[1], rs.v[pl.max_coin]) + xs[pl.max_coin], LAMBDA x :
        With(y(pl, meta_i, meta_j, x, xs), LAMBDA yr :
        IF yr.st # "ok" THEN MRes(yr.st, w, <<>>)
        ELSE IF rs.v[meta_j].num = 0 THEN MRes("raise", w, <<>>)
        ELSE
        With(xs[meta_j] - yr.v - 1, LAMBDA dy0 :
        With(FromVirtual(dy0 - FeeOf(dy0, pl.fee), rs.v[meta_j]), LAMBDA dyv :
        IF base_j < 0 THEN MRes("ok", w, <<dyv>>)
        ELSE
        With(calc_withdraw_one_coin(bp, bpp, dyv, base_j, TRUE), LAMBDA out :
        IF out.st # "ok" THEN MRes(out.st, w, <<>>)
        ELSE MRes("ok", w, <<out.v>>)))))))))

\* dy(i, j, dx)
dy(w, i, j, dx) ==
    IF w.pool.ismeta THEN dy_meta(w, i, j, dx)
    ELSE With(dy_plain(w.pool, w.plist[w.pool.p], i, j, dx), LAMBDA q :
         MRes(q.st, w, IF q.st = "ok" THEN <<q.v>> ELSE <<>>))

-----------------------------------------------------------------------------
(* Pool.dydxfee, Pool.dydx, Pool._dydx: the price is a float and is not      *)
(* kept; what is modelled is whether the evaluation returns.                 *)

RECURSIVE Pow(_, _)
Pow(a, k) == IF k = 0 THEN 1 ELSE a * Pow(a, k - 1)

RECURSIVE ProdTo(_, _)
ProdTo(f, k) == IF k < 0 THEN 1 ELSE f[k] * ProdTo(f, k - 1)

\* math.prod(list)
Prod(f) == ProdTo(f, Len0(f) - 1)

\* outcomes of a statement that runs after one with outcomes S
AndThen(S, T) == (S \ {"ok"}) \cup (IF "ok" \in S THEN T ELSE {})

\* _dydx(i, j, xp, use_fee): the outcomes it can have.  With a dynamic fee
\* the fee is taken at a float of the 10**12 quote size, which is not
\* evaluated here: both outcomes are kept.
dydx_inner(pl, xs, i, j, use_fee) ==
    LET Dr == D(pl, xs)
    IN  IF Dr.st # "ok" THEN {Dr.st}
        ELSE IF At(xs, i) = 0
                \/ At(xs, j) * pl.A * Pow(pl.n, pl.n + 1) * Prod(xs)
                     + Pow(Dr.v, pl.n + 1) = 0
        THEN {"raise"}
        ELSE IF use_fee /\ pl.feemul # None THEN {"ok", "raise"}
        ELSE {"ok"}

\* dydx(i, j, dx=10**12, use_fee): the outcomes it can have.  Where a float
\* is divided by a zero (D_prime) the outcome depends on the float context
\* and both are kept; so are both for a base-pool coin priced in a meta coin,
\* which is quoted for dx = 10**12 base units.
dydx(w, i, j, use_fee) ==
    LET pl == w.pool
        bp == w.basepool
        rs == rates(w)
        base_i == i - pl.max_coin
        base_j == j - pl.max_coin
    IN  IF ~pl.ismeta
        THEN {MRes(st, w, <<>>) :
                st \in dydx_inner(pl, xp(pl, w.plist[pl.p]), i, j, use_fee)}
        ELSE IF rs.st # "ok" THEN {MRes(rs.st, w, <<>>)}
        ELSE IF ~(base_i < 0 \/ base_j < 0)
        THEN {MRes(st, w, <<>>) :
                st \in dydx_inner(bp, xp(bp, w.plist[bp.p]), base_i, base_j, use_fee)}
        ELSE
        LET xs == [k \in Idx(pl.n) |-> ToVirtual(pl.x[k], rs.v[k])]
            base_xp == xp(bp, w.plist[bp.p])
            x_prod == Prod(base_xp)
            Dr == D(bp, base_xp)
            A_pow == bp.A * Pow(bp.n, bp.n + 1)
        IN  IF Dr.st # "ok" THEN {MRes(Dr.st, w, <<>>)}
            ELSE IF ~(base_i < 0) THEN {MRes("ok", w, <<>>), MRes("raise", w, <<>>)}
            ELSE
            LET xj == At(base_xp, base_j)
                num == A_pow * x_prod * xj + Pow(Dr.v, bp.n + 1)
                den == Pow(bp.n, bp.n) * x_prod - A_pow * x_prod
                         - (bp.n + 1) * Pow(Dr.v, bp.n)
                D_prime == IF xj = 0 THEN {"raise"}
                           ELSE IF num = 0 \/ den = 0 THEN {"ok", "raise"}
                           ELSE {"ok"}
                dwdz == dydx_inner(pl, xs, 0, pl.max_coin, use_fee)
                fee == IF use_fee /\ bp.fee.num # 0 /\ Sum(base_xp) = 0
                       THEN {"raise"} ELSE {"ok"}
            IN  {MRes(st, w, <<>>) : st \in AndThen(D_prime, AndThen(dwdz, fee))}

\* dydxfee(i, j)
dydxfee(w, i, j) == dydx(w, i, j, TRUE)

-----------------------------------------------------------------------------
(* arberror, arberrors *)

\* pool.x = x_old; if pool.ismeta: pool.basepool.x = x_old_base;
\* pool.basepool.tokens = tokens_old        (old = the world at entry)
restore(w, old) ==
    IF old.pool.ismeta
    THEN [w EXCEPT !.pool.x = old.pool.x, !.basepool.x = old.basepool.x,
                   !.basepool.tokens = old.basepool.tokens]
    ELSE [w EXCEPT !.pool.x = old.pool.x]

\* arberror(dx, pool, i, j, p): the float returned and p are not kept
arberror(w, dx, i, j) ==
    Then({exchange(w, i, j, dx)},
         LAMBDA ex : Then(dydxfee(ex.w, i, j),
                          LAMBDA r : {MRes("ok", restore(r.w, w), <<>>)}))

RECURSIVE do_trades(_, _, _, _)
\* "Do each trade": exchange(i, j, dx) for every pair whose dx is > 0
do_trades(w, dxs, coins, k) ==
    IF k > Len(coins) THEN {MRes("ok", w, <<>>)}
    ELSE IF dxs[k] > 0
    THEN Then({exchange(w, coins[k][1], coins[k][2], dxs[k])},
              LAMBDA ex : do_trades(ex.w, dxs, coins, k + 1))
    ELSE do_trades(w, dxs, coins, k + 1)

RECURSIVE price_errors(_, _, _)
\* "Check price errors after all trades": dydxfee(i, j) for every pair
price_errors(w, coins, k) ==
    IF k > Len(coins) THEN {MRes("ok", w, <<>>)}
    ELSE Then(dydxfee(w, coins[k][1], coins[k][2]),
              LAMBDA r : price_errors(r.w, coins, k + 1))

\* arberrors(dxs, pool, price_targs, coins)
arberrors(w, dxs, coins) ==
    Then(Then(do_trades(w, dxs, coins, 1), LAMBDA r : price_errors(r.w, coins, 1)),
         LAMBDA r : {MRes("ok", restore(r.w, w), <<>>)})

RECURSIVE dotrades_from(_, _, _, _, _, _)
\* for trade in trades: exchange(i, j, dx); the trade is listed with its dy
\* and dx * p[i] // 10**18 is counted as volume when a meta coin is involved
dotrades_from(w, p, trades, k, done, volume) ==
    IF k > Len(trades) THEN MRes("ok", w, <<done, volume>>)
    ELSE With(trades[k], LAMBDA t :
         With(exchange(w, t[1], t[2], t[3]), LAMBDA ex :
         IF ex.st # "ok" THEN ex
         ELSE dotrades_from(ex.w, p, trades, k + 1,
                            Append(done, <<t[1], t[2], t[3], ex.ret[1]>>),
                            IF w.pool.ismeta /\ ~(t[1] < w.pool.max_coin \/ t[2] < w.pool.max_coin)
                            THEN volume
                            ELSE volume + ToVirtual(t[3], p[t[1] + 1]))))

\* dotrades(trades); p = self.p[0 : self.max_coin] + self.basepool.p[:] for a
\* meta pool, self.p[:] for a plain one, as a sequence
dotrades(w, trades) ==
    With(w.plist[w.pool.p], LAMBDA own :
    With(w.plist[w.basepool.p], LAMBDA base :
    dotrades_from(w,
                  IF w.pool.ismeta
                  THEN [k \in 1 .. w.pool.max_coin + Len0(base) |->
                          IF k <= w.pool.max_coin THEN own[k - 1]
                          ELSE base[k - 1 - w.pool.max_coin]]
                  ELSE [k \in 1 .. Len0(own) |-> own[k - 1]],
                  trades, 1, <<>>, 0)))

-----------------------------------------------------------------------------
(* Pool.optarb, Pool.pricedepth.  scipy's root_scalar is not part of the     *)
(* program: it calls arberror at trade sizes of its choosing and then        *)
(* returns a root or raises.                                                 *)

\* int(a * 0.01)
OnePercent(a) == IF a < 0 THEN -((-a) \div 100) ELSE a \div 100

\* trade sizes at which the root finder evaluates arberror
Probes == 1 .. MaxAmt

\* optarb(i, j, p): the trade and the errors returned are not kept
optarb(w, i, j) ==
    LET pl == w.pool
        bp == w.basepool
        base_i == i - pl.max_coin
        base_j == j - pl.max_coin
        meta_i == IF base_i < 0 THEN i ELSE pl.max_coin
        meta_j == IF base_j < 0 THEN j ELSE pl.max_coin
        rs == rates(w)
        hi == IF ~pl.ismeta
              THEN LET xs == xp(pl, w.plist[pl.p])
                   IN  y(pl, j, i, OnePercent(At(xs, j)), xs)
              ELSE IF base_i < 0 \/ base_j < 0
              THEN IF rs.st # "ok" THEN rs
                   ELSE LET xs == [k \in Idx(pl.n) |-> ToVirtual(pl.x[k], rs.v[k])]
                        IN  y(pl, meta_j, meta_i, OnePercent(xs[meta_j]), xs)
              ELSE LET xs == xp(bp, w.plist[bp.p])
                   IN  y(bp, base_j, base_i, OnePercent(xs[base_j]), xs)
    IN  IF hi.st # "ok" THEN {MRes(hi.st, w, <<>>)}
        ELSE {MRes("raise", w, <<>>)}
             \cup UNION {arberror(w, dx, i, j) : dx \in Probes}

RECURSIVE combos_from(_, _, _)
\* list(combinations(range(n), 2)) from the pair (i, j) on
combos_from(n, i, j) ==
    IF i >= n - 1 THEN <<>>
    ELSE IF j >= n THEN combos_from(n, i + 1, i + 2)
    ELSE <<<<i, j>>>> \o combos_from(n, i, j + 1)

\* arberror(10**12, self, i, j, price): the probe of optarbs.  The balances of
\* the model are small numbers; the probe is a trade of any of the sizes in
\* Probes, and the sign of the error it returns is left open.
probe(w, i, j) == UNION {arberror(w, dx, i, j) : dx \in Probes}

\* try: ... except Exception: a raise inside is caught, the statements after
\* the handler run on the objects as the failed call left them
Caught(S) == {IF r.st = "raise" THEN MRes("ok", r.w, r.ret) ELSE r : r \in S}

RECURSIVE guesses(_, _, _, _)
\* optarbs, "for pair in combos": the probes and the initial guess of every
\* pair from the k-th on; returns the list coins
guesses(w, combos, k, coins) ==
    IF k > Len(combos) THEN {MRes("ok", w, coins)}
    ELSE
    With(combos[k][1], LAMBDA i :
    With(combos[k][2], LAMBDA j :
    Then(probe(w, i, j), LAMBDA a :
         \* arberror(10**12, self, i, j, prices[k]) > 0
         Then(Caught(optarb(a.w, i, j)),
              LAMBDA t : guesses(t.w, combos, k + 1, Append(coins, <<i, j>>)))
         \cup
         Then(probe(a.w, j, i), LAMBDA b :
              \* arberror(10**12, self, j, i, 1 / prices[k]) > 0
              Then(Caught(optarb(b.w, j, i)),
                   LAMBDA t : guesses(t.w, combos, k + 1, Append(coins, <<j, i>>)))
              \cup
              \* neither
              guesses(b.w, combos, k + 1, Append(coins, <<i, j>>))))))

\* least_squares(arberrors, x0, args=(self, price_targs, coins), bounds):
\* the solver calls arberrors at trade sizes of its choosing within the
\* bounds, and then returns or raises
least_squares(w, coins) ==
    {MRes("ok", w, <<>>), MRes("raise", w, <<>>)}
    \cup {r \in UNION {arberrors(w, dxs, coins) :
                         dxs \in [1 .. Len(coins) -> {0, MaxAmt}]} : r.st # "ok"}

\* optarbs(prices, limits): the trades and the errors returned are not kept
optarbs(w) ==
    Then(guesses(w, combos_from(w.pool.n_total, 0, 1), 1, <<>>), LAMBDA g :
         UNION {IF l.st = "raise"
                THEN \* except Exception: errors = arberrors([0] * len(x0), ...)
                     arberrors(l.w, [k \in 1 .. Len(g.ret) |-> 0], g.ret)
                ELSE {MRes(l.st, l.w, <<>>)} : l \in least_squares(g.w, g.ret)})

\* one direction of a pair in pricedepth:
\*   trade, error, res = self.optarb(i, j, self.dydxfee(i, j) * (1 - size))
\*   depth.append(trade[2] / sumxp)
depth_of(w, sumxp, i, j) ==
    Then(dydxfee(w, i, j),
         LAMBDA a : Then(optarb(a.w, i, j),
                         LAMBDA b : {MRes(IF sumxp = 0 THEN "raise" ELSE "ok", b.w, <<>>)}))

RECURSIVE depth_loop(_, _, _, _)
\* for i, j in combinations(range(self.n), 2): both directions of the pair
depth_loop(w, sumxp, i, j) ==
    IF i >= w.pool.n - 1 THEN {MRes("ok", w, <<>>)}
    ELSE Then(depth_of(w, sumxp, i, j),
              LAMBDA a : Then(depth_of(a.w, sumxp, j, i),
                              LAMBDA b : IF j + 1 < w.pool.n
                                         THEN depth_loop(b.w, sumxp, i, j + 1)
                                         ELSE depth_loop(b.w, sumxp, i + 1, i + 2)))

\* pricedepth(size)
pricedepth(w) ==
    LET pl == w.pool
        p_before == w.plist[pl.p]
        vp == get_virtual_price(w.basepool, w.plist[w.basepool.p])
        w0 == [w EXCEPT !.pool.ismeta = FALSE]
        w1 == [w0 EXCEPT !.plist[pl.p][pl.max_coin] = vp.v]
    IN  IF ~pl.ismeta
        THEN depth_loop(w, Sum(xp(pl, w.plist[pl.p])), 0, 1)
        ELSE IF vp.st # "ok" THEN {MRes(vp.st, w0, <<>>)}
        ELSE Then(depth_loop(w1, Sum(xp(w1.pool, w1.plist[pl.p])), 0, 1),
                  LAMBDA r : {MRes("ok",
                                   [r.w EXCEPT !.plist["p_before"] = p_before,
                                               !.pool.p = "p_before",
                                               !.pool.ismeta = TRUE],
                                   <<>>)})

-----------------------------------------------------------------------------
(* State machine: a constructed pool and the calls made on it *)

NoCall == [op |-> "none", args |-> <<>>, st |-> "ok", ret |-> <<>>,
           pre |-> <<>>, prev |-> <<>>]

Snapshot == [pool |-> pool, basepool |-> basepool, plist |-> plist]

\* record of a call; prev keeps the call before it
Call(op, args, st, ret) ==
    [op |-> op, args |-> args, st |-> st, ret |-> ret, pre |-> Snapshot,
     prev |-> [last EXCEPT !.prev = <<>>]]

\* the precision list of a pool
P(pl) == plist[pl.p]

\* a call ran with outcome r, an MRes
Called(op, args, r) ==
    /\ pool' = r.w.pool
    /\ basepool' = r.w.basepool
    /\ plist' = r.w.plist
    /\ last' = Call(op, args, r.st, r.ret)
    /\ halted' = (r.st = "hang")
    /\ steps' = steps + 1
    /\ UNCHANGED built

Exchange(i, j, dx) ==
    /\ ~halted
    /\ Called("exchange", <<i, j, dx>>, exchange(Snapshot, i, j, dx))

AddLiquidity(amounts) ==
    /\ ~halted
    /\ Called("add_liquidity", <<amounts>>,
              OnPool(Snapshot, add_liquidity(pool, P(pool), amounts)))

RemoveLiquidityOneCoin(token_amount, i) ==
    /\ ~halted
    /\ Called("remove_liquidity_one_coin", <<token_amount, i>>,
              OnPool(Snapshot, remove_liquidity_one_coin(pool, P(pool), token_amount, i)))

RemoveLiquidityImbalance(amounts) ==
    /\ ~halted
    /\ Called("remove_liquidity_imbalance", <<amounts>>,
              OnPool(Snapshot, remove_liquidity_imbalance(pool, P(pool), amounts)))

Dy(i, j, dx) ==
    /\ ~halted
    /\ Called("dy", <<i, j, dx>>, dy(Snapshot, i, j, dx))

CalcTokenAmount(amounts) ==
    /\ ~halted
    /\ Called("calc_token_amount", <<amounts>>,
              OnPool(Snapshot, calc_token_amount(pool, P(pool), amounts)))

DoTrades(trades) ==
    /\ ~halted
    /\ Called("dotrades", <<trades>>, dotrades(Snapshot, trades))

ArbError(dx, i, j) ==
    /\ ~halted
    /\ \E r \in arberror(Snapshot, dx, i, j) : Called("arberror", <<dx, i, j>>, r)

ArbErrors(dxs, coins) ==
    /\ ~halted
    /\ \E r \in arberrors(Snapshot, dxs, coins) : Called("arberrors", <<dxs, coins>>, r)

OptArb(i, j) ==
    /\ ~halted
    /\ \E r \in optarb(Snapshot, i, j) : Called("optarb", <<i, j>>, r)

OptArbs ==
    /\ ~halted
    /\ \E r \in optarbs(Snapshot) : Called("optarbs", <<>>, r)

PriceDepth ==
    /\ ~halted
    /\ \E r \in pricedepth(Snapshot) : Called("pricedepth", <<>>, r)

\* all orders of the coins
Perms(n) == {q \in [Idx(n) -> Idx(n)] : \A a, b \in Idx(n) : a # b => q[a] # q[b]}

\* Pool.D(xp) called with the virtual balances taken in the order q
CallD(q) ==
    /\ ~halted
    /\ LET xs == xp(pool, P(pool))
           arg == [k \in Idx(pool.n) |-> xs[q[k]]]
           r == D(pool, arg)
       IN  /\ last' = [Call("D", <<arg>>, r.st, <<r.v>>) EXCEPT !.prev = <<>>]
           /\ halted' = (r.st = "hang")
    /\ UNCHANGED <<pool, basepool, plist, steps, built>>

-----------------------------------------------------------------------------
(* Pools the runs start from *)

Balances(n) == [Idx(n) -> 1 .. MaxBal]

Amounts == 1 .. MaxAmt

\* amounts of one coin in a deposit
Deposits == {0, 1, MaxAmt - 1, MaxAmt}

\* Pool(A, D=xs, n, p=pp, fee=fee, feemul=feemul) that the constructor returns
Constructed(A, xs, n, pp, fee, feemul) ==
    LET c == PlainPool(A, xs, n, "p_pool", pp, -1, fee, feemul)
        lists == [ref \in PRefs |-> IF ref = "p_pool" THEN pp ELSE <<>>]
    IN  /\ c.st = "ok"
        /\ pool = c.pool
        /\ basepool = NoBase
        /\ plist = lists
        /\ last = NoCall
        /\ halted = FALSE
        /\ steps = 0
        /\ built = World(c.pool, NoBase, lists)

\* Pool([A0, A1], [D0, D1], [2, 2], p=p, fee=[fee0, fee1]) that the
\* constructor returns
ConstructedMeta(A, D0, D1, p, fee) ==
    LET c == MetaPool(A, D0, FALSE, D1, <<2, 2>>, p, -1, fee, None, None)
    IN  /\ c.st = "ok"
        /\ pool = c.w.pool
        /\ basepool = c.w.basepool
        /\ plist = c.w.plist
        /\ last = NoCall
        /\ halted = FALSE
        /\ steps = 0
        /\ built = c.w

\* the default precisions [10**18] * n
DefaultP(n) == [k \in Idx(n) |-> One]

\* invariant solver alone: pools of two and three coins, default precision
InitD ==
    \E A \in {1, 2, 10}, n \in {2, 3} :
        \E xs \in Balances(n) :
            Constructed(A, xs, n, DefaultP(n), Rate(0, 1), None)

NextD == \E q \in Perms(pool.n) : CallD(q)

SpecD == InitD /\ [][NextD]_vars

\* fee and feemul of the two-coin pools: no fee; 5 * 10**9 (50%); the same
\* with feemul = 10**10
FeeSettings == {<<Rate(0, 1), None>>, <<Rate(1, 2), None>>, <<Rate(1, 2), One>>}

\* two-coin pools with precisions [10**18, 10**18] and [10**18, 2 * 10**18]
InitSwap ==
    \E A \in {1, 10}, xs \in Balances(2), f \in FeeSettings,
       pp \in {DefaultP(2), [k \in Idx(2) |-> IF k = 0 THEN One ELSE Rate(2, 1)]} :
        Constructed(A, xs, 2, pp, f[1], f[2])

\* successive exchanges
NextSwap ==
    /\ steps < MaxSwaps
    /\ \E i, j \in Idx(pool.n), dx \in Amounts : i # j /\ Exchange(i, j, dx)

SpecSwap == InitSwap /\ [][NextSwap]_vars

\* every mutating method of a plain pool
NextPlain ==
    /\ steps < MaxCalls
    /\ \/ \E i, j \in Idx(pool.n), dx \in Amounts : i # j /\ Exchange(i, j, dx)
       \/ \E amounts \in [Idx(pool.n) -> Deposits] : AddLiquidity(amounts)
       \/ \E i \in Idx(pool.n), t \in Amounts \cup {pool.tokens - 1, pool.tokens} :
              t > 0 /\ RemoveLiquidityOneCoin(t, i)

SpecPlain == InitSwap /\ [][NextPlain]_vars

\* withdrawals of chosen amounts from a plain pool
NextImb ==
    /\ steps < MaxCalls
    /\ \E amounts \in [Idx(pool.n) -> Deposits] : RemoveLiquidityImbalance(amounts)

SpecImb == InitSwap /\ [][NextImb]_vars

\* coin indices passed by a caller: those of the pool, one below and one above
AnyIndex == -1 .. pool.n_total

\* lists of amounts passed by a caller: one entry per coin, one less, one more
AnyAmounts == UNION {[Idx(m) -> {0, 1}] : m \in {pool.n - 1, pool.n, pool.n + 1}}

\* calls on a plain pool with arguments of any kind
NextArgs ==
    /\ steps < MaxCalls
    /\ \/ \E i, j \in AnyIndex, dx \in {-1, 0, 1} : i # j /\ Exchange(i, j, dx)
       \/ \E i, j \in AnyIndex, dx \in {-1, 0, 1} : i # j /\ Dy(i, j, dx)
       \/ \E amounts \in AnyAmounts : AddLiquidity(amounts)
       \/ \E amounts \in AnyAmounts : CalcTokenAmount(amounts)
       \/ \E amounts \in AnyAmounts : RemoveLiquidityImbalance(amounts)

SpecArgs == InitSwap /\ [][NextArgs]_vars

\* balances of a coin in the pools the arbitrage helpers are run on: a few
\* units, and enough for 1% of a balance to be a unit
ArbBalances == {1, 2, 100}

\* a list p given to the constructor of a meta pool: none, [10**18, 10**18],
\* [10**18, 2 * 10**18]
GivenP == {<<>>, DefaultP(2), [k \in Idx(2) |-> IF k = 0 THEN One ELSE Rate(2, 1)]}

\* plain two-coin pools and meta pools of one coin and a two-coin base pool
InitArb ==
    \/ \E xs \in [Idx(2) -> ArbBalances], f \in {Rate(0, 1), Rate(1, 2)} :
           Constructed(1, xs, 2, DefaultP(2), f, None)
    \/ \E D0 \in [Idx(2) -> {2, 100}], b \in {2, 100}, p \in GivenP,
          f \in {Rate(0, 1), Rate(1, 2)} :
           ConstructedMeta(<<1, 1>>, D0, [k \in Idx(2) |-> b], p, <<f, f>>)

\* meta pools of one coin and a two-coin base pool that holds more than the
\* trades move
InitMeta ==
    \E D0 \in [Idx(2) -> {2, 100}], p \in GivenP, f \in {Rate(0, 1), Rate(1, 2)} :
        ConstructedMeta(<<1, 1>>, D0, [k \in Idx(2) |-> 100], p, <<f, f>>)

\* lists of trades given to dotrades: a trade and the trade back
TradeLists ==
    {<<<<t[1], t[2], MaxAmt>>, <<t[2], t[1], MaxAmt>>>> :
        t \in {t \in Idx(pool.n_total) \X Idx(pool.n_total) : t[1] # t[2]}}

\* amounts traded on a meta pool: a few units, and enough for a deposit into
\* the base pool to be charged a fee
MetaAmounts == Amounts \cup {3 * MaxAmt}

\* trades on a meta pool, one at a time and in lists
NextMeta ==
    /\ steps < MaxCalls
    /\ \/ \E i, j \in Idx(pool.n_total), dx \in MetaAmounts : i # j /\ Exchange(i, j, dx)
       \/ \E trades \in TradeLists : DoTrades(trades)

SpecMeta == InitMeta /\ [][NextMeta]_vars

\* the pairs (i, j) whose price dydxfee evaluates on the balances: all of a
\* plain pool; of a meta pool those with i a meta coin or both in the base pool
Priced(i, j) == i # j /\ (pool.ismeta => (i < pool.max_coin \/ j >= pool.max_coin))

\* trades and the arbitrage helpers
NextArb ==
    /\ steps < MaxCalls
    /\ \/ \E i, j \in Idx(pool.n_total), dx \in Amounts : i # j /\ Exchange(i, j, dx)
       \/ \E i, j \in Idx(pool.n_total), dx \in Amounts : Priced(i, j) /\ ArbError(dx, i, j)
       \/ \E i, j \in Idx(pool.n_total), dxs \in [1 .. 2 -> {0, MaxAmt}] :
              Priced(i, j) /\ Priced(j, i) /\ ArbErrors(dxs, <<<<i, j>>, <<j, i>>>>)
       \/ \E i, j \in Idx(pool.n_total) : Priced(i, j) /\ OptArb(i, j)
       \/ ~pool.ismeta /\ OptArbs
       \/ PriceDepth

SpecArb == InitArb /\ [][NextArb]_vars

-----------------------------------------------------------------------------
(* C9, C10: the invariant solver *)

RECURSIVE RefD_P(_, _, _, _)
\* D_P of the reference iteration: D_P*D // (n*xp[k]) folded over k = 0, 1, ...
RefD_P(Dv, n, xs, k) ==
    IF k < 0 THEN Dv ELSE (RefD_P(Dv, n, xs, k - 1) * Dv) \div (n * xs[k])

RECURSIVE RefD_iter(_, _, _, _, _, _)
\* repeat D_next = (Ann*S + n*D_P)*D // ((Ann-1)*D + (n+1)*D_P)
\* until |D_next - D| <= 1, return D_next
RefD_iter(Ann, n, S, xs, Dv, tried) ==
    LET DP == RefD_P(Dv, n, xs, n - 1)
        D_next == ((Ann * S + n * DP) * Dv) \div ((Ann - 1) * Dv + (n + 1) * DP)
    IN  IF Abs(D_next - Dv) <= 1 THEN Ok(D_next)
        ELSE IF Dv \in tried THEN Hang
        ELSE RefD_iter(Ann, n, S, xs, D_next, tried \cup {Dv})

RefD(A, n, xs) ==
    IF Sum(xs) = 0 THEN Ok(0) ELSE RefD_iter(A * n, n, Sum(xs), xs, Sum(xs), {})

AllPositive(xs) == \A k \in DOMAIN xs : xs[k] > 0

\* C9: Pool.D(xp), for positive virtual balances xp, returns the integer the
\* reference iteration produces (start at sum(xp), stop at the first step
\* that moves D by at most 1 and return that step's value), and does not
\* return when the reference iteration never stops.
C9_DMatchesReference ==
    (last.op = "D" /\ AllPositive(last.args[1]))
        => LET ref == RefD(pool.A, pool.n, last.args[1])
           IN  last.st = ref.st /\ last.ret = <<ref.v>>

\* a D call on unequal balances whose iteration moved away from sum(xp)
C9_Witness ==
    /\ last.op = "D" /\ last.st = "ok"
    /\ AllPositive(last.args[1])
    /\ last.args[1][0] # last.args[1][1]
    /\ last.ret[1] # Sum(last.args[1])

\* C10: D(xp) taken on any reordering of the virtual balances equals D(xp)
\* taken in the pool's own order.
C10_DSymmetric ==
    last.op = "D"
        => LET own == D(pool, xp(pool, P(pool)))
           IN  last.st = own.st /\ last.ret = <<own.v>>

-----------------------------------------------------------------------------
(* C1, C2, C8: exchange on a plain pool *)

\* all balances > 0 and tokens > 0
Legal(pl) == AllPositive(pl.x) /\ pl.tokens > 0

\* a >= b for two virtual prices D*10**18 // tokens with tokens > 0
RateGeq(a, b) == a.num * b.den >= b.num * a.den

\* D() and get_virtual_price() of the pool in a recorded state
DOf(st) == D(st.pool, xp(st.pool, st.plist[st.pool.p]))
VPOf(st) == get_virtual_price(st.pool, st.plist[st.pool.p])

ExchangeDone == last.op = "exchange" /\ last.st = "ok" /\ ~last.pre.pool.ismeta

\* C1: after a successful exchange on a plain pool in a legal state, D() is
\* not below D() before the exchange and get_virtual_price() is not below
\* get_virtual_price() before it.
C1_ExchangeKeepsD ==
    (ExchangeDone /\ Legal(last.pre.pool)
       /\ DOf(last.pre).st = "ok" /\ DOf(Snapshot).st = "ok")
        => /\ DOf(Snapshot).v >= DOf(last.pre).v
           /\ RateGeq(VPOf(Snapshot).v, VPOf(last.pre).v)

\* C2 as claimed: dy(i, j, dx) taken in the state before a successful
\* exchange(i, j, dx) is > 0 and equals the first component (dy_net) of the
\* pair the exchange returned, for every fee setting.
C2_DyIsNet ==
    ExchangeDone
        => LET q == dy_plain(last.pre.pool, last.pre.plist[last.pre.pool.p],
                             last.args[1], last.args[2], last.args[3])
           IN  q.st = "ok" /\ q.v > 0 /\ q.v = last.ret[1]

\* C2 as amended: dy(i, j, dx) taken in the state before a successful
\* exchange(i, j, dx) is > 0 and equals dy_net + dy_fee, the sum of the pair
\* the exchange returned.
C2_DyIsGross ==
    ExchangeDone
        => LET q == dy_plain(last.pre.pool, last.pre.plist[last.pre.pool.p],
                             last.args[1], last.args[2], last.args[3])
           IN  q.st = "ok" /\ q.v > 0 /\ q.v = last.ret[1] + last.ret[2]

\* an exchange that charged a fee
C2_Witness == ExchangeDone /\ last.ret[2] > 0

\* C8: on a plain pool with fee = 0, exchange(i, j, dx) followed by
\* exchange(j, i, dy), dy being what the first call returned, leaves D() and
\* every balance within 1 of their values before the first exchange.
C8_RoundTrip ==
    (/\ ExchangeDone
     /\ last.prev.op = "exchange" /\ last.prev.st = "ok"
     /\ pool.fee.num = 0
     /\ last.args = <<last.prev.args[2], last.prev.args[1], last.prev.ret[1]>>
     /\ DOf(last.prev.pre).st = "ok" /\ DOf(Snapshot).st = "ok")
        => /\ Abs(DOf(Snapshot).v - DOf(last.prev.pre).v) <= 1
           /\ \A k \in Idx(pool.n) : Abs(pool.x[k] - last.prev.pre.pool.x[k]) <= 1

-----------------------------------------------------------------------------
(* C3, C6, C7: liquidity *)

AddDone == last.op = "add_liquidity" /\ last.st = "ok"

\* C3: calc_token_amount(amounts), called in the state from which
\* add_liquidity(amounts) is called next, returns leaving x and tokens as they
\* were, with the mint amount add_liquidity then returns; add_liquidity
\* leaves x[k] = old x[k] + amounts[k] for every k and tokens = old tokens +
\* mint.
C3_CalcMatchesAdd ==
    AddDone
        => LET old == last.pre.pool
               q == calc_token_amount(old, last.pre.plist[old.p], last.args[1])
           IN  /\ q.st = "ok"
               /\ q.pool = old
               /\ q.ret = last.ret
               /\ \A k \in Idx(old.n) : pool.x[k] = old.x[k] + last.args[1][k]
               /\ pool.tokens = old.tokens + last.ret[1]

\* an imbalanced deposit that was charged: it minted fewer tokens than the
\* growth of D without the fee would give
C3_Witness ==
    /\ AddDone
    /\ last.args[1][0] # last.args[1][1]
    /\ last.ret[1] > 0
    /\ last.ret[1] < FloorDiv(last.pre.pool.tokens * (DOf(Snapshot).v - DOf(last.pre).v),
                              DOf(last.pre).v)

\* C6: tokens > 0 whenever sum(x) > 0, in every state reached by exchange,
\* add_liquidity and remove_liquidity_one_coin calls.
C6_TokensPositive == (last.st = "ok" /\ Sum(pool.x) > 0) => pool.tokens > 0

\* C7: get_virtual_price() does not decrease across add_liquidity with an
\* imbalanced amounts vector nor across remove_liquidity_one_coin with
\* 0 < token_amount < tokens, on a plain pool in a legal state with fee > 0.
C7_VirtualPriceKept ==
    (/\ last.st = "ok"
     /\ \/ last.op = "add_liquidity" /\ last.args[1][0] # last.args[1][1]
        \/ last.op = "remove_liquidity_one_coin"
             /\ 0 < last.args[1] /\ last.args[1] < last.pre.pool.tokens
     /\ Legal(last.pre.pool) /\ last.pre.pool.fee.num > 0
     /\ VPOf(last.pre).st = "ok" /\ VPOf(Snapshot).st = "ok" /\ pool.tokens > 0)
        => RateGeq(VPOf(Snapshot).v, VPOf(last.pre).v)

-----------------------------------------------------------------------------
(* C4, C5: what the arbitrage helpers and pricedepth leave behind *)

\* C4: after arberror(dx, pool, i, j, p) or arberrors(dxs, pool, price_targs,
\* coins) finishes, by returning or by raising, pool.x, pool.basepool.x and
\* pool.basepool.tokens hold the values they had before the call.
C4_ArbErrorRestores ==
    (last.op \in {"arberror", "arberrors"} /\ last.st \in {"ok", "raise"})
        => /\ pool.x = last.pre.pool.x
           /\ basepool.x = last.pre.basepool.x
           /\ basepool.tokens = last.pre.basepool.tokens

\* a rate in lowest terms: the integer it stands for identifies it
Lowest(q) ==
    IF q.num = 0 THEN Rate(0, 1)
    ELSE Rate(q.num \div Gcd(q.num, q.den), q.den \div Gcd(q.num, q.den))

\* the fields of a pool that are set at construction, p by the integers in it
Fields(w, pl) ==
    [A |-> pl.A, n |-> pl.n,
     p |-> [k \in DOMAIN w.plist[pl.p] |-> Lowest(w.plist[pl.p][k])],
     fee |-> pl.fee,
     feemul |-> pl.feemul, r |-> pl.r, ismeta |-> pl.ismeta]

\* C5: after public operations that returned, the fields A, n, p, fee, feemul
\* and r (and ismeta) of the pool and of its base pool hold their
\* construction-time values.
C5_FieldsKept ==
    last.st = "ok"
        => /\ Fields(Snapshot, pool) = Fields(built, built.pool)
           /\ Fields(Snapshot, basepool) = Fields(built, built.basepool)

-----------------------------------------------------------------------------
(* C11: remove_liquidity_imbalance *)

\* C11: remove_liquidity_imbalance(amounts) that returns has committed the
\* withdrawal to the balances (x[k] = old x[k] - amounts[k] for every k) and
\* left tokens unchanged.
C11_ImbalanceCommits ==
    (last.op = "remove_liquidity_imbalance" /\ last.st = "ok")
        => /\ pool.x = [k \in Idx(pool.n) |-> last.pre.pool.x[k] - last.args[1][k]]
           /\ pool.tokens = last.pre.pool.tokens

-----------------------------------------------------------------------------
(* C12: exchange with no output *)

\* x and tokens of the pool and of its base pool are as before the last call
StateKept ==
    /\ pool.x = last.pre.pool.x
    /\ pool.tokens = last.pre.pool.tokens
    /\ basepool.x = last.pre.basepool.x
    /\ basepool.tokens = last.pre.basepool.tokens

\* C12: exchange(i, j, dx) fails whenever the computed output dy (the amount
\* returned plus the fee returned) is <= 0, and a failed exchange leaves x,
\* tokens, basepool.x and basepool.tokens as before the call, on plain pools
\* and in every routing case of a meta pool.
C12_ExchangeFailsClean ==
    last.op = "exchange"
        => /\ last.st = "ok" => last.ret[1] + last.ret[2] > 0
           /\ last.st = "raise" => StateKept

-----------------------------------------------------------------------------
(* C13: arguments that are not valid *)

\* the last call was given a coin index outside [0, n_total), a dx <= 0, or a
\* list of amounts whose length is not n
BadArgs ==
    \/ /\ last.op \in {"exchange", "dy"}
       /\ \/ last.args[1] \notin Idx(last.pre.pool.n_total)
          \/ last.args[2] \notin Idx(last.pre.pool.n_total)
          \/ last.args[3] <= 0
    \/ /\ last.op \in {"add_liquidity", "calc_token_amount", "remove_liquidity_imbalance"}
       /\ Len0(last.args[1]) # last.pre.pool.n

\* C13: exchange and dy called with a coin index outside [0, n_total) or with
\* dx <= 0, and add_liquidity, calc_token_amount, remove_liquidity_imbalance
\* called with a list of amounts whose length differs from n, fail and leave
\* the pool state unchanged.
C13_BadArgsRejected ==
    (BadArgs /\ last.st # "hang") => (last.st = "raise" /\ StateKept)

-----------------------------------------------------------------------------
(* C14: termination of the fixed-point loops *)

\* C14: the loops of D(), y() and y_D() come to an end on any input: a call
\* that reaches them returns, or fails, and does not iterate forever.
C14_LoopsTerminate == last.st # "hang"

-----------------------------------------------------------------------------
(* C15: optarbs and failures of the solvers *)

\* C15: optarbs(prices, limits) lets no failure of a probe, of a pairwise
\* solve or of the least-squares solve reach the caller: the call does not
\* raise.
C15_OptArbsCatches == last.op = "optarbs" => last.st # "raise"

-----------------------------------------------------------------------------
(* C16: the quote of a meta pool *)

\* the last call was a successful exchange on a meta pool between a coin of
\* the meta pool and another coin
MetaSwapDone ==
    /\ last.op = "exchange"
    /\ last.st = "ok"
    /\ last.pre.pool.ismeta
    /\ last.args[1] # last.args[2]
    /\ (last.args[1] < last.pre.pool.max_coin \/ last.args[2] < last.pre.pool.max_coin)

\* dy(i, j, dx) of the state the last call was made in
QuoteBefore == dy(last.pre, last.args[1], last.args[2], last.args[3])

\* C16: for a meta pool and i # j with a meta coin on one side at least,
\* dy(i, j, dx) returns the dy_net that exchange(i, j, dx) returns from the
\* same state, with a base pool coin as input and with one as output.
C16_QuoteMatchesExchange ==
    MetaSwapDone => (QuoteBefore.st = "ok" /\ QuoteBefore.ret[1] = last.ret[1])

\* a base pool coin went in, and the deposit was charged the imbalance fee
C16_Witness ==
    /\ MetaSwapDone
    /\ last.args[1] >= last.pre.pool.max_coin
    /\ last.pre.basepool.fee.num # 0
    /\ last.ret[1] > 0

-----------------------------------------------------------------------------
(* C18: base pool LP tokens outside the meta pool *)

\* basepool.tokens - x[max_coin] in the world w
LpOutside(w) == w.basepool.tokens - w.pool.x[w.pool.max_coin]

\* the last call was an exchange, or a list of trades, that a meta pool
\* carried out
MetaTradeDone ==
    /\ last.op \in {"exchange", "dotrades"}
    /\ last.st = "ok"
    /\ last.pre.pool.ismeta

\* C18: on a meta pool basepool.tokens - x[max_coin] is the same before and
\* after every successful exchange(i, j, dx), whatever the routing, and so
\* before and after every successful dotrades(trades).
C18_LpOutsideKept == MetaTradeDone => LpOutside(Snapshot) = LpOutside(last.pre)

\* a list of trades minted or burned LP tokens of the base pool
C18_Witness ==
    /\ MetaTradeDone
    /\ last.op = "dotrades"
    /\ basepool.tokens # last.pre.basepool.tokens

-----------------------------------------------------------------------------
(* C17: balances stay positive *)

\* the last call was a successful exchange, add_liquidity with amounts >= 0,
\* or remove_liquidity_one_coin with 0 < token_amount < tokens, made on
\* balances that were all > 0
PositiveStep ==
    /\ last.st = "ok"
    /\ \/ last.op = "exchange"
       \/ last.op = "add_liquidity" /\ \A k \in DOMAIN last.args[1] : last.args[1][k] >= 0
       \/ last.op = "remove_liquidity_one_coin"
            /\ 0 < last.args[1] /\ last.args[1] < last.pre.pool.tokens
    /\ AllPositive(last.pre.pool.x)
    /\ AllPositive(last.pre.basepool.x)

\* C17: a successful exchange, add_liquidity (amounts >= 0) or
\* remove_liquidity_one_coin (0 < token_amount < tokens) made on balances that
\* are all > 0 leaves every balance of the pool, and of its base pool, > 0,
\* whatever the precisions p.
C17_BalancesStayPositive ==
    PositiveStep => (AllPositive(pool.x) /\ AllPositive(basepool.x))

=============================================================================
